---------------------------- MODULE Spec2Model ----------------------------
(***************************************************************************)
(* A model of src/ssh.py: the pool of ssh tunnels (SshTunnelPool) and the  *)
(* sessions (Ssh) that run commands over a pooled tunnel.                  *)
(*                                                                         *)
(* Conventions.                                                            *)
(*  - A Python string is a sequence of characters, each a one-character    *)
(*    TLA+ string; a few fixed texts the code only ever handles whole      *)
(*    ("RET=", the three ssh error signatures, "OK", "ERR") are one        *)
(*    character of the model's alphabet.                                   *)
(*  - A value that may be None is a sequence: None is << >> and a value v  *)
(*    is <<v>>.                                                            *)
(*  - A process (a subprocess.Popen object) is identified by its position  *)
(*    in procs, the sequence of all processes spawned so far.              *)
(***************************************************************************)
EXTENDS Integers, Sequences, FiniteSets, TLC

None == << >>
Some(v) == <<v>>

\* Python's truth value of an optional list or string: None and the empty
\* list (or string) are false.
Truthy(o) == o # None /\ o[1] # << >>

\* Python's truth value of an optional regular expression (a TLA+ string).
TruthyStr(o) == o # None /\ o[1] # ""

\* Python's truth value of an optional integer: None and 0 are false.
TruthyInt(o) == o # None /\ o[1] # 0

Range(f) == { f[x] : x \in DOMAIN f }

-----------------------------------------------------------------------------
(* Bounds of the model *)

\* Processes spawned in one behaviour.
MaxProcs == 2

-----------------------------------------------------------------------------
(* Strings and the pooling key *)

RECURSIVE ReprItems(_)
\* str() of the items of a list of strings: each item in single quotes
\* (the items of the model hold no quote and no backslash), joined by ", ".
ReprItems(l) ==
    IF l = << >> THEN << >>
    ELSE <<"'">> \o Head(l) \o <<"'">>
         \o (IF Tail(l) = << >> THEN << >> ELSE <<",", " ">>)
         \o ReprItems(Tail(l))

\* "%s" % daemon: 'None', or the list's str().
StrOf(daemon) ==
    IF daemon = None THEN <<"N", "o", "n", "e">>
    ELSE <<"[">> \o ReprItems(daemon[1]) \o <<"]">>

\* A pooling key that leaves the daemon out.
KeyHostnameOnly(hostname, daemon) == hostname

\* key = "%s-%s" % (hostname, daemon)
Key(hostname, daemon) == hostname \o <<"-">> \o StrOf(daemon)

-----------------------------------------------------------------------------
(* The arguments of the model's calls *)

Hostnames == { <<"a">>, <<"a", "-", "b">> }

Daemons == { None, Some(<< <<"d">> >>) }

SshOptions == { None, Some(<< <<"-", "A">> >>) }

\* The exit statuses a tunnel may end with: 0 (the remote side closed the
\* session normally) and 255 (ssh's own error status).
ExitStatuses == { 0, 255 }

-----------------------------------------------------------------------------
VARIABLES
    tunnels,    \* SshTunnelPool.tunnels: key -> process
    procs,      \* every process spawned so far (see Popen)
    verbose,    \* SshTunnelPool.verbose
    ret,        \* history: what the last call on the pool returned
    held,       \* history: pair -> process returned since its last kill_tunnel
    pc,         \* where run is: "idle" (no run), "loop", "post", "done"
    self,       \* the Ssh object of the run, with its retval, stdout, stderr
    timeout,    \* run's timeout
    tunnel,     \* _communicate's tunnel
    finished,   \* _communicate's finished
    elapsed,    \* time.time() - time_start, in whole seconds
    exc,        \* the exception run raised, None if it returned
    polled,     \* history: what tunnel.poll() gave for the process written to
    atWrite     \* history: the registry when the command was written

poolVars == <<tunnels, procs, verbose>>
histVars == <<ret, held>>
runVars == <<pc, self, timeout, tunnel, finished, elapsed, exc, polled, atWrite>>
vars == <<tunnels, procs, verbose, ret, held,
          pc, self, timeout, tunnel, finished, elapsed, exc, polled, atWrite>>

-----------------------------------------------------------------------------
(* SshTunnelPool *)

\* The pool as one value, so that a method is a function of it.
Pool == [tunnels |-> tunnels, procs |-> procs, verbose |-> verbose]

\* A command line that leaves the extra options out.
OptsWithoutExtra(isVerbose, hostname, daemon, ssh_options) ==
    << <<"s", "s", "h">>, <<"-", "x">>, <<"-", "T">>,
       <<"-", "o", "B", "a", "t", "c", "h", "M", "o", "d", "e", "=", "y", "e", "s">> >>
    \o (IF isVerbose THEN << <<"-", "v", "v", "v">> >> ELSE << >>)
    \o <<hostname>>
    \o (IF Truthy(daemon) THEN daemon[1] ELSE << >>)

\* opts, the command line of a new tunnel.
Opts(isVerbose, hostname, daemon, ssh_options) ==
    << <<"s", "s", "h">>, <<"-", "x">>, <<"-", "T">>,
       <<"-", "o", "B", "a", "t", "c", "h", "M", "o", "d", "e", "=", "y", "e", "s">> >>
    \o (IF isVerbose THEN << <<"-", "v", "v", "v">> >> ELSE << >>)
    \o (IF Truthy(ssh_options) THEN ssh_options[1] ELSE << >>)
    \o <<hostname>>
    \o (IF Truthy(daemon) THEN daemon[1] ELSE << >>)

\* subprocess.Popen(opts, stdin=PIPE, stdout=PIPE, stderr=PIPE): a running
\* process with empty pipes. pair, evicted and signalled are history: the pair
\* it was spawned for, whether kill_tunnel removed it from the pool and whether
\* kill() reached it.
Popen(opts, pair) ==
    [ argv |-> opts, returncode |-> None,
      stdin |-> None,
      out |-> << >>, err |-> << >>, outRest |-> << >>, errRest |-> << >>,
      pair |-> pair, evicted |-> FALSE, signalled |-> FALSE ]

\* Whether get_tunnel spawns a process.
Spawns(P, hostname, daemon) == Key(hostname, daemon) \notin DOMAIN P.tunnels

\* A get_tunnel that spawns a process whether the key is registered or not.
get_tunnel_always_spawns(P, hostname, daemon, ssh_options) ==
    LET key == Key(hostname, daemon)
        new == Len(P.procs) + 1
        opts == Opts(P.verbose, hostname, daemon, ssh_options)
    IN [ pool |-> [ P EXCEPT
             !.procs = Append(@, Popen(opts, <<hostname, daemon>>)),
             !.tunnels = [k \in DOMAIN @ \cup {key} |->
                              IF k = key THEN new ELSE @[k]] ],
         tunnel |-> new ]

\* get_tunnel: the pool after the call, and the tunnel returned.
get_tunnel(P, hostname, daemon, ssh_options) ==
    LET key == Key(hostname, daemon) IN
    IF key \in DOMAIN P.tunnels
    THEN [pool |-> P, tunnel |-> P.tunnels[key]]
    ELSE LET new == Len(P.procs) + 1
             opts == Opts(P.verbose, hostname, daemon, ssh_options)
         IN [ pool |-> [ P EXCEPT
                  !.procs = Append(@, Popen(opts, <<hostname, daemon>>)),
                  !.tunnels = [k \in DOMAIN @ \cup {key} |->
                                   IF k = key THEN new ELSE @[k]] ],
              tunnel |-> new ]

\* A kill_tunnel that kills the process and keeps its registry entry.
kill_tunnel_keeps_entry(P, hostname, daemon, killOk) ==
    LET key == Key(hostname, daemon) IN
    IF key \in DOMAIN P.tunnels
    THEN [ P EXCEPT !.procs[P.tunnels[key]] =
                        [ @ EXCEPT !.signalled = killOk, !.evicted = TRUE ] ]
    ELSE P

\* A kill_tunnel that deletes the entry only when tunnel.kill() succeeded.
kill_key_only_if_killed(P, key, killOk) ==
    IF key \in DOMAIN P.tunnels /\ killOk
    THEN [ P EXCEPT
             !.procs[P.tunnels[key]] = [ @ EXCEPT !.signalled = TRUE, !.evicted = TRUE ],
             !.tunnels = [k \in DOMAIN @ \ {key} |-> @[k]] ]
    ELSE P

\* kill_tunnel from its test of the key on: the pool after the call. killOk
\* is whether tunnel.kill() exists and succeeds; the entry is deleted either
\* way. An evicted process is out of the pool's reach: its record keeps who
\* it was and whether it was signalled, and follows its pipes and its exit
\* status no further.
kill_key(P, key, killOk) ==
    IF key \in DOMAIN P.tunnels
    THEN LET old == P.tunnels[key] IN
         [ P EXCEPT
             !.procs[old] = [ @ EXCEPT !.signalled = killOk, !.evicted = TRUE,
                                         !.returncode = None, !.stdin = None,
                                         !.out = << >>, !.err = << >>,
                                         !.outRest = << >>, !.errRest = << >> ],
             !.tunnels = [k \in DOMAIN @ \ {key} |-> @[k]] ]
    ELSE P

\* kill_tunnel(hostname, daemon), daemon None or a list of strings.
kill_tunnel(P, hostname, daemon, killOk) ==
    kill_key(P, Key(hostname, daemon), killOk)

\* The index of the first "-" of a string that holds one.
RECURSIVE FirstDash(_, _)
FirstDash(str, i) == IF str[i] = "-" THEN i ELSE FirstDash(str, i + 1)

\* key.split('-', 1) of a registry key: the strings before and after its
\* first "-".
Split(key) ==
    LET i == FirstDash(key, 1) IN
    [ hostname |-> SubSeq(key, 1, i - 1), daemon |-> SubSeq(key, i + 1, Len(key)) ]

\* "%s-%s" % (hostname, daemon) when daemon is a string, as __del__ gives
\* it to kill_tunnel.
KeyOfStrings(hostname, daemon) == hostname \o <<"-">> \o daemon

-----------------------------------------------------------------------------
(* Ssh: the texts on the wire *)

\* The alphabet of a tunnel's stdout and stderr. "RET=", "OK", "ERR" and the
\* three ssh error texts stand for those texts whole.
HostKeySig == "Host key verification failed."
UnresolvedSig == "Could not resolve hostname a: Name or service not known"
ConnTimeoutSig == "connect to host a: Connection timed out"
Digits == { "0", "1" }

\* The regular expressions of the model.
PatShell == "(RET=\\d+)\\n"
PatOkErr == "(OK|ERR) (.+)$"

\* The index of the last character of the run of digits that starts at i
\* (i - 1 when there is none): what \d+ takes.
RECURSIVE DigitsEnd(_, _)
DigitsEnd(text, i) ==
    IF i <= Len(text) /\ text[i] \in Digits THEN DigitsEnd(text, i + 1) ELSE i - 1

\* Whether (RET=\d+)\n matches at i, at any place of a line.
ShellMatchAt(text, i) ==
    /\ text[i] = "RET="
    /\ LET j == DigitsEnd(text, i + 1) IN
       /\ j >= i + 1
       /\ j + 1 <= Len(text)
       /\ text[j + 1] = "\n"

\* Whether (OK|ERR) (.+)$ matches at i, under re.MULTILINE: .+ runs to the
\* end of the line, where $ matches.
OkErrMatchAt(text, i) ==
    /\ text[i] \in { "OK", "ERR" }
    /\ i + 2 <= Len(text)
    /\ text[i + 1] = " "
    /\ text[i + 2] # "\n"

\* A search that finds the marker only where a line begins.
re_search_line_start(pattern, text) ==
    LET found == { i \in 1..Len(text) :
                     ShellMatchAt(text, i) /\ (i = 1 \/ text[i - 1] = "\n") }
    IN IF found = { } THEN None
       ELSE LET i == CHOOSE k \in found : \A l \in found : k <= l IN
            Some(SubSeq(text, i, DigitsEnd(text, i + 1)))

\* m = re.search(pattern, text, re.MULTILINE); m.group(1), None without a
\* match: the leftmost match's first group.
re_search(pattern, text) ==
    LET at(i) == IF pattern = PatShell THEN ShellMatchAt(text, i)
                 ELSE OkErrMatchAt(text, i)
        found == { i \in 1..Len(text) : at(i) }
    IN IF found = { } THEN None
       ELSE LET i == CHOOSE k \in found : \A l \in found : k <= l IN
            IF pattern = PatShell
            THEN Some(SubSeq(text, i, DigitsEnd(text, i + 1)))
            ELSE Some(<<text[i]>>)

\* A fatal-error test that knows only the host key failure.
FatalErrorHostKeyOnly(line_err) ==
    IF \E i \in 1..Len(line_err) : line_err[i] = HostKeySig
    THEN Some("Host key verification failed") ELSE None

\* The known ssh issues: the message of the SshException line_err raises,
\* None when it raises none. Each re.search looks for the text anywhere in
\* line_err.
FatalError(line_err) ==
    IF \E i \in 1..Len(line_err) : line_err[i] = HostKeySig
    THEN Some("Host key verification failed")
    ELSE IF \E i \in 1..Len(line_err) : line_err[i] = UnresolvedSig
    THEN Some("Unknown host")
    ELSE IF \E i \in 1..Len(line_err) : line_err[i] = ConnTimeoutSig
    THEN Some("Timed-out while connecting")
    ELSE None

\* _noblock_read_line on a pipe holding `pipe` when nothing more arrives
\* during the call: the line read and what stays in the pipe. The call ends
\* at a newline (consumed, not returned), or when select finds nothing to
\* read or read gives '' (end of file); it drops carriage returns.
RECURSIVE NoblockReadFrom(_, _)
NoblockReadFrom(line, pipe) ==
    IF pipe = << >> THEN [line |-> line, rest |-> pipe]
    ELSE IF Head(pipe) = "\r" THEN NoblockReadFrom(line, Tail(pipe))
    ELSE IF Head(pipe) = "\n" THEN [line |-> line, rest |-> Tail(pipe)]
    ELSE NoblockReadFrom(Append(line, Head(pipe)), Tail(pipe))

_noblock_read_line(pipe) == NoblockReadFrom(<< >>, pipe)

RECURSIVE Join(_)
\* ' '.join(cmd)
Join(cmd) ==
    IF cmd = << >> THEN << >>
    ELSE Head(cmd) \o (IF Tail(cmd) = << >> THEN << >> ELSE <<" ">>)
         \o Join(Tail(cmd))

\* ' && echo "RET="$? || echo "RET="$?', one character of the model.
ShellFrame == <<" && echo \"RET=\"$? || echo \"RET=\"$?">>

\* A wire string with the exit code framing in daemon mode too.
WireStringAlwaysFramed(session, cmd) == Join(cmd) \o ShellFrame

\* The string run sends.
WireString(session, cmd) ==
    IF Truthy(session.daemon) THEN Join(cmd) ELSE Join(cmd) \o ShellFrame

-----------------------------------------------------------------------------
(* Ssh: time *)

\* elapsed is time.time() - time_start in whole seconds: run's timeout is a
\* whole number of seconds, and the two tests below see no more of the
\* clock than that. MaxElapsed stands for itself and for every longer time.
MaxElapsed == 1

\* while not finished and (not timeout or (time.time() - time_start < timeout))
LoopCondition(isFinished, budget, seconds) ==
    ~isFinished /\ (IF TruthyInt(budget) THEN seconds < budget[1] ELSE TRUE)

\* A timeout test that leaves the clock out.
TimedOutNoClock(budget, seconds) == TruthyInt(budget)

\* if timeout and (time.time() - time_start >= timeout)
TimedOut(budget, seconds) == TruthyInt(budget) /\ seconds >= budget[1]

-----------------------------------------------------------------------------
(* Ssh: the sessions, commands and answers of the model *)

\* A constructor that tests the hostname only.
SshInitHostnameOnly(hostname, daemon, match, ssh_options) ==
    IF hostname = << >> THEN None
    ELSE Some([ hostname |-> hostname, daemon |-> daemon, match |-> match,
                ssh_options |-> ssh_options,
                retval |-> None, stdout |-> None, stderr |-> None ])

\* Ssh(hostname, daemon, match, ssh_options): the object, or None when the
\* constructor raises TypeError.
SshInit(hostname, daemon, match, ssh_options) ==
    IF hostname = << >> THEN None
    ELSE IF (TruthyStr(match) /\ ~Truthy(daemon)) \/ (Truthy(daemon) /\ ~TruthyStr(match))
    THEN None
    ELSE Some([ hostname |-> hostname, daemon |-> daemon, match |-> match,
                ssh_options |-> ssh_options,
                retval |-> None, stdout |-> None, stderr |-> None ])

\* The sessions of the model: a shell session and a daemon session.
Sessions ==
    { SshInit(<<"a">>, None, None, None)[1],
      SshInit(<<"a">>, Some(<< <<"d">> >>), Some(PatOkErr), None)[1] }

Cmds == { << <<"c">>, <<"x">> >> }

Timeouts == { None, Some(0), Some(1) }

\* What the remote side answers to a command: the characters it will write
\* on stdout and on stderr. It may stop anywhere, so that every answer also
\* stands for its beginnings, silence included.
ShellAnswers ==
    { [out |-> <<"RET=", "0", "\n">>, err |-> << >>],
      [out |-> <<"RET=", "1", "\n">>, err |-> << >>],
      [out |-> <<"RET=", "0", "\n">>, err |-> <<HostKeySig, "\n">>],
      [out |-> << >>, err |-> <<UnresolvedSig, "\n">>] }

DaemonAnswers ==
    { [out |-> <<"OK", " ", "x", "\n">>, err |-> << >>],
      [out |-> << >>, err |-> <<ConnTimeoutSig, "\n">>] }

Answers(session) == IF Truthy(session.daemon) THEN DaemonAnswers ELSE ShellAnswers

\* A command is sent only to a tunnel with at most this many characters of
\* earlier answers still unread.
MaxUnread == 0

\* No Ssh object: the value of self while no run is under way.
NoSession ==
    [ hostname |-> << >>, daemon |-> None, match |-> None, ssh_options |-> None,
      retval |-> None, stdout |-> None, stderr |-> None ]

RunInit ==
    /\ pc = "idle"
    /\ self = NoSession
    /\ timeout = None
    /\ tunnel = 0
    /\ finished = FALSE
    /\ elapsed = 0
    /\ exc = None
    /\ polled = None
    /\ atWrite = << >>

-----------------------------------------------------------------------------
(* The pool's methods as the actions of a caller of the pool *)

SetPool(P) ==
    /\ tunnels' = P.tunnels
    /\ procs' = P.procs
    /\ verbose' = P.verbose

\* SshTunnelPool.be_verbose()
BeVerbose ==
    /\ ~verbose
    /\ verbose' = TRUE
    /\ UNCHANGED <<tunnels, procs, ret, held>>
    /\ UNCHANGED runVars

\* pool.get_tunnel(hostname, daemon, ssh_options)
GetTunnel ==
    \E hostname \in Hostnames, daemon \in Daemons, ssh_options \in SshOptions :
        LET r == get_tunnel(Pool, hostname, daemon, ssh_options)
            pair == <<hostname, daemon>>
        IN /\ Spawns(Pool, hostname, daemon) => Len(procs) < MaxProcs
           /\ SetPool(r.pool)
           /\ ret' = Some([ pair |-> pair, tunnel |-> r.tunnel,
                            ssh_options |-> ssh_options,
                            before |-> IF pair \in DOMAIN held
                                       THEN Some(held[pair]) ELSE None ])
           /\ held' = [q \in DOMAIN held \cup {pair} |->
                           IF q = pair THEN r.tunnel ELSE held[q]]
           /\ UNCHANGED runVars

\* pool.kill_tunnel(hostname, daemon)
KillTunnel ==
    \E hostname \in Hostnames, daemon \in Daemons, killOk \in BOOLEAN :
        /\ SetPool(kill_tunnel(Pool, hostname, daemon, killOk))
        /\ held' = [q \in DOMAIN held \ {<<hostname, daemon>>} |-> held[q]]
        /\ ret' = None
        /\ UNCHANGED runVars

PoolInit ==
    /\ tunnels = << >>
    /\ procs = << >>
    /\ verbose = FALSE
    /\ ret = None
    /\ held = << >>
    /\ RunInit

PoolNext == BeVerbose \/ GetTunnel \/ KillTunnel

PoolSpec == PoolInit /\ [][PoolNext]_vars

-----------------------------------------------------------------------------
(* Ssh.run and Ssh._communicate, as the steps of one caller *)

Raise(type, msg) == Some([type |-> type, msg |-> msg])

\* The pattern _communicate is called with.
ActiveMatch(session) ==
    IF Truthy(session.daemon) THEN session.match[1] ELSE PatShell

\* `if tunnel.poll():` poll() gives the exit status, None while it runs.
Died(returncode) == TruthyInt(returncode)

\* self.stdout += line + '\n' when a line was read.
Appended(text, line) == IF line = << >> THEN text ELSE text \o line \o <<"\n">>

\* The characters a process wrote, or will write, that nobody read yet.
Unread(p) == Len(p.out) + Len(p.outRest) + Len(p.err) + Len(p.errRest)

\* When an exchange ends, what it left in the pipes can only be read by the
\* next exchange on the tunnel: it is counted with what has yet to arrive.
Leave(p) == [p EXCEPT !.out = << >>, !.outRest = p.out \o @,
                      !.err = << >>, !.errRest = p.err \o @]

\* run, from its argument checks to _communicate's write and the reading of
\* time_start. answer is what the remote side will reply to the command;
\* unread bounds what earlier answers left in the tunnel's pipes.
RunOn(unread) ==
    \E session \in Sessions, cmd \in Cmds, budget \in Timeouts, killOk \in BOOLEAN :
    \E answer \in Answers(session) :
        LET first == get_tunnel(Pool, session.hostname, session.daemon,
                                session.ssh_options)
            died == Died(first.pool.procs[first.tunnel].returncode)
            again == IF died
                     THEN get_tunnel(kill_tunnel(first.pool, session.hostname,
                                                 session.daemon, killOk),
                                     session.hostname, session.daemon,
                                     session.ssh_options)
                     ELSE first
            t == again.tunnel
            rc == again.pool.procs[t].returncode
        IN /\ pc = "idle"
           /\ Len(again.pool.procs) <= MaxProcs
           /\ Unread(again.pool.procs[t]) <= unread
           /\ self' = [session EXCEPT !.retval = None, !.stdout = << >>,
                                      !.stderr = << >>]
           /\ tunnel' = t
           /\ polled' = rc
           /\ finished' = FALSE
           /\ elapsed' = 0
           /\ tunnels' = again.pool.tunnels
           /\ atWrite' = again.pool.tunnels
           /\ verbose' = verbose
           /\ IF rc # None
              THEN \* the write to a pipe nobody reads any more fails
                   /\ procs' = again.pool.procs
                   /\ exc' = Raise("IOError", "Broken pipe")
                   /\ timeout' = None
                   /\ pc' = "done"
              ELSE /\ procs' = [again.pool.procs EXCEPT
                         ![t].stdin = Some(WireString(session, cmd) \o <<"\n">>),
                         ![t].outRest = @ \o answer.out,
                         ![t].errRest = @ \o answer.err]
                   /\ exc' = None
                   /\ timeout' = budget
                   /\ pc' = "loop"

Run == RunOn(MaxUnread) /\ UNCHANGED histVars

\* One turn of _communicate's loop.
Poll ==
    /\ pc = "loop"
    /\ LoopCondition(finished, timeout, elapsed)
    /\ \E killOk \in BOOLEAN :
       LET o == _noblock_read_line(procs[tunnel].out)
           e == _noblock_read_line(procs[tunnel].err)
           line_out == o.line
           line_err == e.line
           read == [procs EXCEPT ![tunnel].out = o.rest, ![tunnel].err = e.rest]
           out2 == Appended(self.stdout, line_out)
           err2 == Appended(self.stderr, line_err)
           m == re_search(ActiveMatch(self), out2)
           fatal == FatalError(line_err)
       IN IF line_out = << >> /\ line_err = << >>
          THEN \* time.sleep(self._sleep_delay); continue
               /\ procs' = read
               /\ UNCHANGED <<tunnels, verbose, self, pc, exc, finished>>
          ELSE IF m # None
          THEN \* self.retval = m.group(1); finished = True; break
               /\ self' = [self EXCEPT !.stdout = out2, !.stderr = err2,
                                       !.retval = m]
               /\ finished' = TRUE
               /\ pc' = "post"
               /\ procs' = read
               /\ UNCHANGED <<tunnels, verbose, exc>>
          ELSE IF fatal # None
          THEN \* self._pool.kill_tunnel(...); raise SshException(...)
               /\ self' = [self EXCEPT !.stdout = out2, !.stderr = err2]
               /\ SetPool(kill_tunnel([Pool EXCEPT !.procs = read],
                                      self.hostname, self.daemon, killOk))
               /\ exc' = Raise("SshException", fatal[1])
               /\ pc' = "done"
               /\ UNCHANGED finished
          ELSE /\ self' = [self EXCEPT !.stdout = out2, !.stderr = err2]
               /\ procs' = read
               /\ UNCHANGED <<tunnels, verbose, pc, exc, finished>>
    /\ UNCHANGED <<ret, held, timeout, tunnel, elapsed, polled, atWrite>>

\* The loop condition fails: on to the test after the loop.
LoopExit ==
    /\ pc = "loop"
    /\ ~LoopCondition(finished, timeout, elapsed)
    /\ pc' = "post"
    /\ UNCHANGED <<tunnels, procs, verbose, ret, held, self, timeout, tunnel,
                   finished, elapsed, exc, polled, atWrite>>

\* What run does with what _communicate left in self.retval: the new
\* self.retval and the exception raised.
RunResult(session) ==
    IF Truthy(session.daemon)
    THEN [retval |-> session.retval, exc |-> None]
    ELSE IF session.retval = None
    THEN [retval |-> None,
          exc |-> Raise("SshException", "Failed to parse return value")]
    ELSE LET code == Tail(session.retval[1]) IN   \* self.retval.split('=', 1)
         [retval |-> Some(code),
          exc |-> IF code # <<"0">>
                  THEN Raise("SshCmdFailedException", "An error occured")
                  ELSE None]

\* The test after the loop, and the rest of run when _communicate returns.
PostLoop ==
    /\ pc = "post"
    /\ pc' = "done"
    /\ \E killOk \in BOOLEAN :
       IF TimedOut(timeout, elapsed)
       THEN /\ SetPool(kill_tunnel(Pool, self.hostname, self.daemon, killOk))
            /\ exc' = Raise("SshCmdTimeoutException", "Timed-out while waiting for reply")
            /\ UNCHANGED self
       ELSE /\ self' = [self EXCEPT !.retval = RunResult(self).retval]
            /\ exc' = RunResult(self).exc
            /\ procs' = [procs EXCEPT ![tunnel] = Leave(@)]
            /\ UNCHANGED <<tunnels, verbose>>
    /\ UNCHANGED <<ret, held, timeout, tunnel, finished, elapsed, polled, atWrite>>

\* The caller has what run returned or raised, and is ready for another call.
Return ==
    /\ pc = "done"
    /\ pc' = "idle"
    /\ self' = NoSession
    /\ timeout' = None
    /\ tunnel' = 0
    /\ finished' = FALSE
    /\ elapsed' = 0
    /\ exc' = None
    /\ polled' = None
    /\ atWrite' = << >>
    /\ UNCHANGED poolVars
    /\ UNCHANGED histVars

\* Ssh.kill()
Kill ==
    \E session \in Sessions, killOk \in BOOLEAN :
        /\ pc = "idle"
        /\ SetPool(kill_tunnel(Pool, session.hostname, session.daemon, killOk))
        /\ UNCHANGED histVars
        /\ UNCHANGED runVars

-----------------------------------------------------------------------------
(* The remote side and the clock *)

\* The next character of the answer reaches the tunnel's stdout pipe. What
\* arrives while no exchange reads is seen by the next exchange, as if it
\* arrived then.
ArriveOut ==
    /\ pc = "loop"
    /\ procs[tunnel].outRest # << >>
    /\ procs' = [procs EXCEPT ![tunnel].out = Append(@, Head(procs[tunnel].outRest)),
                              ![tunnel].outRest = Tail(@)]
    /\ UNCHANGED <<tunnels, verbose>>
    /\ UNCHANGED histVars
    /\ UNCHANGED runVars

ArriveErr ==
    /\ pc = "loop"
    /\ procs[tunnel].errRest # << >>
    /\ procs' = [procs EXCEPT ![tunnel].err = Append(@, Head(procs[tunnel].errRest)),
                              ![tunnel].errRest = Tail(@)]
    /\ UNCHANGED <<tunnels, verbose>>
    /\ UNCHANGED histVars
    /\ UNCHANGED runVars

\* A registered tunnel's process ends by itself; what it had not written yet
\* is lost. The program sees the end only in poll(), at the start of an
\* exchange: an end during an exchange is an answer that stops.
TunnelExits ==
    \E t \in Range(tunnels), status \in ExitStatuses :
        /\ pc = "idle"
        /\ procs[t].returncode = None
        /\ procs' = [procs EXCEPT ![t].returncode = Some(status),
                                  ![t].outRest = << >>,
                                  ![t].errRest = << >>]
        /\ UNCHANGED <<tunnels, verbose>>
        /\ UNCHANGED histVars
        /\ UNCHANGED runVars

\* A second passes. The time of a run that was given no timeout is not
\* followed: nothing depends on it.
Tick ==
    /\ pc \in { "loop", "post" }
    /\ timeout # None
    /\ elapsed < MaxElapsed
    /\ elapsed' = elapsed + 1
    /\ UNCHANGED <<tunnels, procs, verbose, ret, held, pc, self, timeout, tunnel,
                   finished, exc, polled, atWrite>>

\* The system clock is set back: time.time() is not monotonic.
ClockBack ==
    /\ pc \in { "loop", "post" }
    /\ timeout # None
    /\ elapsed > 0
    /\ elapsed' = elapsed - 1
    /\ UNCHANGED <<tunnels, procs, verbose, ret, held, pc, self, timeout, tunnel,
                   finished, exc, polled, atWrite>>

Init == PoolInit

Step == Run \/ Poll \/ LoopExit \/ PostLoop \/ Return

Next ==
    \/ Step
    \/ Kill
    \/ ArriveOut
    \/ ArriveErr
    \/ TunnelExits
    \/ Tick
    \/ ClockBack

Spec == Init /\ [][Next]_vars

\* The scheduling of one thread whose clock runs on and is never set back:
\* the caller's next step is taken, and time passes.
FairNext ==
    \/ Step
    \/ Kill
    \/ ArriveOut
    \/ ArriveErr
    \/ TunnelExits
    \/ Tick

FairSpec == Init /\ [][FairNext]_vars /\ WF_vars(Step) /\ WF_vars(Tick)

-----------------------------------------------------------------------------
(* The end of the pool *)

\* __del__: the pool after the call and the exception that ends it. The loop
\* runs over self.tunnels while kill_tunnel deletes from it: first is the key
\* the dictionary gives first, and once its entry is deleted the
\* dictionary's iterator raises RuntimeError at its next step, whatever is
\* left. An exception of __del__ is printed and dropped by the interpreter.
__del__(P, first, killOk) ==
    IF DOMAIN P.tunnels = { }
    THEN [pool |-> P, exc |-> None]
    ELSE [pool |-> kill_key(P, KeyOfStrings(Split(first).hostname,
                                            Split(first).daemon), killOk),
          exc |-> Raise("RuntimeError", "dictionary changed size during iteration")]

\* The pool is destroyed.
Del ==
    /\ pc = "idle"
    /\ \E first \in DOMAIN tunnels \cup { << >> }, killOk \in BOOLEAN :
           /\ (first = << >>) = (DOMAIN tunnels = { })
           /\ SetPool(__del__(Pool, first, killOk).pool)
           /\ exc' = __del__(Pool, first, killOk).exc
    /\ pc' = "deleted"
    /\ ret' = None
    /\ UNCHANGED <<held, self, timeout, tunnel, finished, elapsed, polled, atWrite>>

\* A caller of the pool that lets go of it at some time.
DelNext ==
    \/ BeVerbose /\ pc = "idle"
    \/ GetTunnel /\ pc = "idle"
    \/ KillTunnel /\ pc = "idle"
    \/ Del

DelSpec == PoolInit /\ [][DelNext]_vars

-----------------------------------------------------------------------------
(* The pool's registry *)

\* The pairs whose last get_tunnel was not followed by a kill_tunnel.
Held == DOMAIN held

\* C1: two get_tunnel calls in sequence for the same (hostname, daemon)
\* pair with no kill_tunnel between them return the same process, and calls
\* for different pairs never return the same process: the process returned
\* is the one spawned for the pair asked for.
C1_SameKeySameProcess ==
    /\ ret # None =>
         /\ ret[1].before # None => ret[1].tunnel = ret[1].before[1]
         /\ procs[ret[1].tunnel].pair = ret[1].pair
    /\ \A p, q \in Held : p # q => held[p] # held[q]

\* A second get_tunnel for a pair returned, while another pair holds a
\* process too.
C1_Witness ==
    /\ ret # None
    /\ ret[1].before # None
    /\ Cardinality(Held) >= 2

\* C2: get_tunnel after kill_tunnel for the same key returns a process
\* other than the one killed, and no get_tunnel ever returns a process that
\* kill_tunnel has removed: what get_tunnel returns is registered under the
\* key and was never evicted.
C2_KilledNeverReturned ==
    ret # None =>
        /\ ~procs[ret[1].tunnel].evicted
        /\ Key(ret[1].pair[1], ret[1].pair[2]) \in DOMAIN tunnels
        /\ tunnels[Key(ret[1].pair[1], ret[1].pair[2])] = ret[1].tunnel

\* get_tunnel returned a process for a pair whose earlier process was killed.
C2_Witness ==
    /\ ret # None
    /\ \E i \in 1..Len(procs) :
           /\ procs[i].evicted
           /\ procs[i].pair = ret[1].pair
           /\ i # ret[1].tunnel

\* The items of a command line that are extra options of some session.
ExtraOf(argv) ==
    SelectSeq(argv, LAMBDA item :
                  \E o \in SshOptions : o # None /\ item \in Range(o[1]))

\* The extra options as a list: none for None and for the empty list.
Given(ssh_options) == IF Truthy(ssh_options) THEN ssh_options[1] ELSE << >>

\* C21: the extra options are not part of the key and act only at a spawn.
\* A get_tunnel for a registered pair returns the registered process, with
\* the command line it was spawned with, whatever options the call gives;
\* a get_tunnel that spawns (no entry, or the entry was evicted) puts the
\* options of that very call on the command line; and no call changes the
\* command line of a process that exists.
C21_OptionsOnlyAtSpawn ==
    [][ /\ \A i \in DOMAIN procs : procs'[i].argv = procs[i].argv
        /\ (ret' # None /\ ret' # ret) =>
              LET call == ret'[1]
                  key == Key(call.pair[1], call.pair[2])
              IN IF key \in DOMAIN tunnels
                 THEN /\ call.tunnel = tunnels[key]
                      /\ procs'[call.tunnel].argv = procs[call.tunnel].argv
                 ELSE /\ call.tunnel \notin DOMAIN procs
                      /\ ExtraOf(procs'[call.tunnel].argv) = Given(call.ssh_options) ]_vars

\* A session got the process another session's options spawned, after that
\* session had its own process spawned in place of an evicted one.
C21_Witness ==
    /\ ret # None
    /\ ret[1].before # None
    /\ ExtraOf(procs[ret[1].tunnel].argv) # Given(ret[1].ssh_options)
    /\ \E i \in DOMAIN procs :
           /\ procs[i].evicted
           /\ procs[i].pair = ret[1].pair
           /\ ExtraOf(procs[i].argv) # ExtraOf(procs[ret[1].tunnel].argv)

\* C11: when the pool is destroyed, kill_tunnel is called for every
\* registered key: every process that was registered is evicted and the
\* registry ends empty.
C11_DelKillsAll ==
    pc = "deleted" =>
        /\ DOMAIN tunnels = { }
        /\ \A i \in 1..Len(procs) : procs[i].evicted

\* C12: kill_tunnel never raises and is idempotent: on a registered key it
\* removes the entry, and only that entry, whether or not the process could
\* be killed; on an absent key, and so on a second call, it changes nothing.
C12_KillTunnelIdempotent ==
    \A hostname \in Hostnames, daemon \in Daemons, killOk \in BOOLEAN, again \in BOOLEAN :
        LET key == Key(hostname, daemon)
            once == kill_tunnel(Pool, hostname, daemon, killOk)
        IN /\ DOMAIN once.tunnels = DOMAIN tunnels \ {key}
           /\ \A k \in DOMAIN once.tunnels : once.tunnels[k] = tunnels[k]
           /\ key \notin DOMAIN tunnels => once = Pool
           /\ kill_tunnel(once, hostname, daemon, again) = once

\* kill_tunnel removed the entry of a process that it could not kill, while
\* another key stays registered.
C12_Witness ==
    /\ ret = None
    /\ DOMAIN tunnels # { }
    /\ \E i \in 1..Len(procs) :
           /\ procs[i].evicted
           /\ ~procs[i].signalled
           /\ Key(procs[i].pair[1], procs[i].pair[2]) \notin DOMAIN tunnels

-----------------------------------------------------------------------------
(* The exchange *)

\* The class of the exception run raised, "none" when it raised none.
ExcType == IF exc = None THEN "none" ELSE exc[1].type

\* The registry key of the session whose run is under way.
SelfKey == Key(self.hostname, self.daemon)

\* C3: at the start of an exchange a pooled process that has terminated,
\* with any exit status, is replaced, so that the command is never written
\* to a process that had already terminated: the process written to was
\* running when polled.
C3_NeverWrittenToDead == pc \in { "loop", "post", "done" } => polled = None

\* C4: once the accumulated stdout matched the completion pattern the
\* exchange is a success: the group is recorded, neither a timeout nor a
\* transport error is raised and the process stays in the pool, whatever
\* the elapsed time.
C4_MatchIsSuccess ==
    (pc = "done" /\ finished) =>
        /\ self.retval # None
        /\ ExcType \notin { "SshCmdTimeoutException", "SshException" }
        /\ SelfKey \in DOMAIN tunnels
        /\ tunnels[SelfKey] = tunnel

\* C5: an exchange with a timeout of t seconds fails with
\* SshCmdTimeoutException only when the elapsed time measured since the
\* command was written is at least t.
C5_TimeoutNotBefore ==
    (pc = "done" /\ ExcType = "SshCmdTimeoutException") =>
        /\ timeout # None
        /\ elapsed >= timeout[1]

\* An exchange with a timeout of one second that saw no match timed out.
C5_Witness ==
    /\ pc = "done"
    /\ ExcType = "SshCmdTimeoutException"
    /\ ~finished
    /\ timeout = Some(1)
    /\ SelfKey \notin DOMAIN tunnels

\* C6: for every timeout given to run, 0 included, an exchange whose
\* transport produces neither a match nor a fatal line ends: every exchange
\* with a timeout that is polling comes to its end.
C6_BudgetedExchangeEnds == (pc = "loop" /\ timeout # None) ~> (pc = "done")

\* The three texts of stderr that _communicate takes for fatal.
FatalSignatures == { HostKeySig, UnresolvedSig, ConnTimeoutSig }

\* The turn of the loop that is about to start reads a stderr line holding
\* a fatal signature.
ReadsFatalLine ==
    /\ pc = "loop"
    /\ LoopCondition(finished, timeout, elapsed)
    /\ LET line == _noblock_read_line(procs[tunnel].err).line IN
       \E i \in 1..Len(line) : line[i] \in FatalSignatures

\* C7, as stated: the turn of the loop that reads a fatal stderr line ends
\* the exchange with SshException.
C7_FatalFailsImmediately ==
    [][ (ReadsFatalLine /\ Poll) =>
            (pc' = "done" /\ exc' # None /\ exc'[1].type = "SshException") ]_vars

\* C7, amended: the turn of the loop that reads a fatal stderr line ends the
\* exchange with SshException and evicts the tunnel, before any test of the
\* timeout, unless the stdout accumulated in that same turn matches the
\* completion pattern: then the exchange completes as matched.
C7_FatalFailsUnlessMatched ==
    [][ (ReadsFatalLine /\ Poll) =>
            IF re_search(ActiveMatch(self), self'.stdout) # None
            THEN pc' = "post" /\ finished' /\ exc' = None
            ELSE /\ pc' = "done"
                 /\ exc' # None
                 /\ exc'[1].type = "SshException"
                 /\ SelfKey \notin DOMAIN tunnels' ]_vars

\* An exchange with a timeout ended on a fatal stderr line.
C7_Witness ==
    /\ pc = "done"
    /\ ExcType = "SshException"
    /\ exc[1].msg = "Unknown host"
    /\ timeout = Some(1)
    /\ \E i \in 1..Len(self.stderr) : self.stderr[i] = UnresolvedSig

\* C8: when run raises SshException (a fatal stderr line or a return value
\* that cannot be parsed) or SshCmdTimeoutException, the pool holds no entry
\* for the session's key.
C8_ErrorsEvict ==
    (pc = "done" /\ ExcType \in { "SshException", "SshCmdTimeoutException" }) =>
        SelfKey \notin DOMAIN tunnels

\* The exit code on the RET= marker of the captured stdout, None without a
\* marker.
Reported == re_search(PatShell, self.stdout)

\* C9: in shell mode, when the remote side reported exit code n on the RET=
\* marker: for n zero run returns and leaves the result code "0", for n not
\* zero run raises SshCmdFailedException and the result code is n.
C9_ExitCode ==
    (pc = "done" /\ ~Truthy(self.daemon) /\ Reported # None) =>
        LET n == Tail(Reported[1]) IN
        IF n = <<"0">>
        THEN exc = None /\ self.retval = Some(<<"0">>)
        ELSE ExcType = "SshCmdFailedException" /\ self.retval = Some(n)

\* C10: a shell-mode run that raises SshCmdFailedException leaves the
\* registry as it was when the command was written, with the process of the
\* exchange under the session's key, and a run on a key whose registered
\* process is running uses that process.
C10_FailureKeepsTunnel ==
    /\ [](pc = "done" /\ ExcType = "SshCmdFailedException" =>
            /\ tunnels = atWrite
            /\ SelfKey \in DOMAIN tunnels
            /\ tunnels[SelfKey] = tunnel
            /\ ~procs[tunnel].evicted)
    /\ [][ (pc = "idle" /\ pc' # "idle") =>
             LET key == Key(self'.hostname, self'.daemon) IN
             (key \in DOMAIN tunnels /\ procs[tunnels[key]].returncode = None)
                 => tunnel' = tunnels[key] ]_vars

\* A shell-mode run raised SshCmdFailedException for exit code 1, and its
\* process is the one registered.
C10_Witness ==
    /\ pc = "done"
    /\ ExcType = "SshCmdFailedException"
    /\ self.retval = Some(<<"1">>)
    /\ Len(procs) = 1
    /\ tunnels[SelfKey] = 1

-----------------------------------------------------------------------------
(* The captured output *)

\* C13: a partial line is kept pending and completed in a later turn of the
\* loop: however the answer's characters are split over the turns, the
\* captured stdout and stderr hold the answer's lines as they were written,
\* no line broken in two. With the pipes empty when the command is written,
\* what was captured followed by what is still to be read is the answer.
C13_LinesIntact ==
    (pc = "loop" /\ MaxUnread = 0) =>
        \E answer \in Answers(self) :
            /\ self.stdout \o procs[tunnel].out \o procs[tunnel].outRest = answer.out
            /\ self.stderr \o procs[tunnel].err \o procs[tunnel].errRest = answer.err

-----------------------------------------------------------------------------
(* The completion pattern of shell mode, on every short text *)

\* The longest captured stdout the pattern is tried on.
MaxLen == 4

\* The characters of the texts the pattern is tried on.
Alphabet == { "x", "RET=", "0", "1", "\n" }

Texts == UNION { [1..n -> Alphabet] : n \in 0..MaxLen }

\* A shell-mode session that has captured some stdout.
SearchInit ==
    /\ tunnels = << >>
    /\ procs = << >>
    /\ verbose = FALSE
    /\ ret = None
    /\ held = << >>
    /\ pc = "captured"
    /\ \E text \in Texts :
           self = [ SshInit(<<"a">>, None, None, None)[1] EXCEPT
                      !.stdout = text, !.stderr = << >> ]
    /\ timeout = None
    /\ tunnel = 0
    /\ finished = FALSE
    /\ elapsed = 0
    /\ exc = None
    /\ polled = None
    /\ atWrite = << >>

\* _communicate's test of the captured stdout.
Search ==
    /\ pc = "captured"
    /\ pc' = "searched"
    /\ LET m == re_search(ActiveMatch(self), self.stdout) IN
       /\ self' = [self EXCEPT !.retval = m]
       /\ finished' = (m # None)
    /\ UNCHANGED <<tunnels, procs, verbose, ret, held, timeout, tunnel, elapsed,
                   exc, polled, atWrite>>

SearchSpec == SearchInit /\ [][Search]_vars

\* RET=, one digit or more, and a newline stand in text from i on.
MarkerAt(text, i) ==
    \E j \in (i + 1)..(Len(text) - 1) :
        /\ text[i] = "RET="
        /\ \A k \in (i + 1)..j : text[k] \in Digits
        /\ text[j + 1] = "\n"

\* C14, as stated: in shell mode the exchange completes only on a stdout
\* line that begins with RET= followed by digits and a newline.
C14_OnlyAtLineStart ==
    (pc = "searched" /\ finished) =>
        \E i \in 1..Len(self.stdout) :
            /\ MarkerAt(self.stdout, i)
            /\ (i = 1 \/ self.stdout[i - 1] = "\n")

\* C14, amended: in shell mode the exchange completes exactly when the
\* captured stdout holds RET=, one digit or more, and a newline, at the
\* beginning of a line or after other characters of it.
C14_AnywhereInLine ==
    pc = "searched" =>
        finished = (\E i \in 1..Len(self.stdout) : MarkerAt(self.stdout, i))

\* The exchange completed on a marker that follows another character of its
\* line.
C14_Witness ==
    /\ pc = "searched"
    /\ finished
    /\ self.stdout = <<"x", "RET=", "0", "\n">>
    /\ self.retval = Some(<<"RET=", "0">>)

-----------------------------------------------------------------------------
(* Daemon mode *)

\* C15: in daemon mode run sends the command's tokens joined by spaces and
\* nothing more, completes when the captured stdout matches the session's
\* own pattern, records the first group of the match, and neither parses an
\* exit code nor raises SshCmdFailedException: for the pattern
\* (OK|ERR) (.+)$ and an answer line "OK x" the result is "OK".
C15_DaemonMode ==
    (pc \in { "loop", "post", "done" } /\ Truthy(self.daemon) /\ polled = None) =>
        /\ pc = "loop" =>
               \E cmd \in Cmds : procs[tunnel].stdin = Some(Join(cmd) \o <<"\n">>)
        /\ finished = (re_search(self.match[1], self.stdout) # None)
        /\ self.retval = re_search(self.match[1], self.stdout)
        /\ self.retval \in { None, Some(<<"OK">>), Some(<<"ERR">>) }
        /\ ExcType # "SshCmdFailedException"

\* A daemon-mode run returned with the result "OK" for the answer "OK x".
C15_Witness ==
    /\ pc = "done"
    /\ Truthy(self.daemon)
    /\ exc = None
    /\ self.stdout = <<"OK", " ", "x", "\n">>
    /\ self.retval = Some(<<"OK">>)

-----------------------------------------------------------------------------
(* The constructor, on every combination of arguments *)

\* The arguments given to the constructor: the empty hostname, the empty
\* list and the empty pattern among them.
CtorHostnames == { << >>, <<"a">>, <<"a", "-", "b">> }
CtorDaemons == { None, Some(<< >>), Some(<< <<"d">> >>) }
CtorMatches == { None, Some(""), Some(PatOkErr) }
CtorOptions == { None, Some(<< >>), Some(<< <<"-", "A">> >>) }

\* A caller about to construct a session: self holds the arguments.
CtorInit ==
    /\ tunnels = << >>
    /\ procs = << >>
    /\ verbose = FALSE
    /\ ret = None
    /\ held = << >>
    /\ pc = "new"
    /\ \E hostname \in CtorHostnames, daemon \in CtorDaemons,
          match \in CtorMatches, ssh_options \in CtorOptions :
           self = [ hostname |-> hostname, daemon |-> daemon, match |-> match,
                    ssh_options |-> ssh_options,
                    retval |-> None, stdout |-> None, stderr |-> None ]
    /\ timeout = None
    /\ tunnel = 0
    /\ finished = FALSE
    /\ elapsed = 0
    /\ exc = None
    /\ polled = None
    /\ atWrite = << >>

\* Ssh(hostname, daemon, match, ssh_options)
Construct ==
    /\ pc = "new"
    /\ LET made == SshInit(self.hostname, self.daemon, self.match, self.ssh_options) IN
       IF made = None
       THEN /\ pc' = "failed"
            /\ self' = NoSession
            /\ exc' = Raise("TypeError", "Ssh creator")
       ELSE /\ pc' = "constructed"
            /\ self' = made[1]
            /\ exc' = None
    /\ UNCHANGED <<tunnels, procs, verbose, ret, held, timeout, tunnel, finished,
                   elapsed, polled, atWrite>>

CtorSpec == CtorInit /\ [][Construct]_vars

\* C16: a constructed session has its daemon command and its match pattern
\* both present or both absent, and a hostname; with exactly one of the two
\* present, or with an empty hostname, the constructor raises TypeError and
\* there is no session. Present is what the code tests: given and not empty.
C16_DaemonAndMatchTogether ==
    /\ [](pc = "constructed" =>
            /\ Truthy(self.daemon) = TruthyStr(self.match)
            /\ self.hostname # << >>)
    /\ [][ (pc = "new" /\ pc' # "new"
            /\ (self.hostname = << >> \/ Truthy(self.daemon) # TruthyStr(self.match)))
           => (pc' = "failed" /\ self' = NoSession
               /\ exc' = Raise("TypeError", "Ssh creator")) ]_vars

\* A session was constructed with a daemon command and a match pattern.
C16_Witness ==
    /\ pc = "constructed"
    /\ self.daemon = Some(<< <<"d">> >>)
    /\ self.match = Some(PatOkErr)

-----------------------------------------------------------------------------
(* The pool under two threads *)

\* Two threads call get_tunnel and kill_tunnel on the one pool. The methods
\* take no lock, so a thread may be preempted between any two statements;
\* a step is one statement's access to self.tunnels or its call to Popen or
\* kill. Here pc, self, tunnel and exc are per thread: the place in the
\* method, the (hostname, daemon) of the call, the local variable tunnel,
\* and the exception that ended the thread's last call.
Threads == { 1, 2 }

NoCall == << << >>, None >>

ThreadInit ==
    /\ tunnels = << >>
    /\ procs = << >>
    /\ verbose = FALSE
    /\ ret = None
    /\ held = << >>
    /\ pc = [t \in Threads |-> "idle"]
    /\ self = [t \in Threads |-> NoCall]
    /\ tunnel = [t \in Threads |-> 0]
    /\ exc = [t \in Threads |-> None]
    /\ timeout = None
    /\ finished = FALSE
    /\ elapsed = 0
    /\ polled = None
    /\ atWrite = << >>

ThreadKey(t) == Key(self[t][1], self[t][2])

\* What a thread's step leaves alone besides the pool and its own state.
ThreadFrame == UNCHANGED <<verbose, ret, held, timeout, finished, elapsed, polled, atWrite>>

\* The thread's call returns, or ends with the exception e.
Returns(t, e) ==
    /\ pc' = [pc EXCEPT ![t] = "idle"]
    /\ self' = [self EXCEPT ![t] = NoCall]
    /\ tunnel' = [tunnel EXCEPT ![t] = 0]
    /\ exc' = [exc EXCEPT ![t] = e]

\* A thread calls get_tunnel or kill_tunnel.
Call(t) ==
    \E hostname \in Hostnames, daemon \in Daemons, method \in { "get", "kill" } :
        /\ pc[t] = "idle"
        /\ pc' = [pc EXCEPT ![t] = method \o "_test"]
        /\ self' = [self EXCEPT ![t] = <<hostname, daemon>>]
        /\ exc' = [exc EXCEPT ![t] = None]
        /\ UNCHANGED <<tunnels, procs, tunnel>>
        /\ ThreadFrame

\* get_tunnel: if key in self.tunnels
GetTest(t) ==
    /\ pc[t] = "get_test"
    /\ pc' = [pc EXCEPT ![t] = IF ThreadKey(t) \in DOMAIN tunnels
                               THEN "get_return" ELSE "get_popen"]
    /\ UNCHANGED <<tunnels, procs, self, tunnel, exc>>
    /\ ThreadFrame

\* get_tunnel: return self.tunnels[key]
GetReturn(t) ==
    /\ pc[t] = "get_return"
    /\ Returns(t, IF ThreadKey(t) \in DOMAIN tunnels THEN None
                  ELSE Raise("KeyError", "key"))
    /\ UNCHANGED <<tunnels, procs>>
    /\ ThreadFrame

\* get_tunnel: tunnel = subprocess.Popen(opts, ...)
GetPopen(t) ==
    /\ pc[t] = "get_popen"
    /\ Len(procs) < MaxProcs
    /\ procs' = Append(procs, Popen(Opts(verbose, self[t][1], self[t][2], None), self[t]))
    /\ tunnel' = [tunnel EXCEPT ![t] = Len(procs) + 1]
    /\ pc' = [pc EXCEPT ![t] = "get_store"]
    /\ UNCHANGED <<tunnels, self, exc>>
    /\ ThreadFrame

\* get_tunnel: self.tunnels[key] = tunnel; return tunnel
GetStore(t) ==
    /\ pc[t] = "get_store"
    /\ tunnels' = [k \in DOMAIN tunnels \cup {ThreadKey(t)} |->
                       IF k = ThreadKey(t) THEN tunnel[t] ELSE tunnels[k]]
    /\ Returns(t, None)
    /\ UNCHANGED procs
    /\ ThreadFrame

\* kill_tunnel: if key in self.tunnels
KillTest(t) ==
    /\ pc[t] = "kill_test"
    /\ IF ThreadKey(t) \in DOMAIN tunnels
       THEN /\ pc' = [pc EXCEPT ![t] = "kill_read"]
            /\ UNCHANGED <<self, tunnel, exc>>
       ELSE Returns(t, None)
    /\ UNCHANGED <<tunnels, procs>>
    /\ ThreadFrame

\* kill_tunnel: tunnel = self.tunnels[key]
KillRead(t) ==
    /\ pc[t] = "kill_read"
    /\ IF ThreadKey(t) \in DOMAIN tunnels
       THEN /\ tunnel' = [tunnel EXCEPT ![t] = tunnels[ThreadKey(t)]]
            /\ pc' = [pc EXCEPT ![t] = "kill_kill"]
            /\ UNCHANGED <<self, exc>>
       ELSE Returns(t, Raise("KeyError", "key"))
    /\ UNCHANGED <<tunnels, procs>>
    /\ ThreadFrame

\* kill_tunnel: tunnel.kill(), its failure caught. The process is marked as
\* taken out by kill_tunnel, killed or not.
KillKill(t) ==
    /\ pc[t] = "kill_kill"
    /\ \E killOk \in BOOLEAN :
           procs' = [procs EXCEPT ![tunnel[t]] =
                        [ @ EXCEPT !.signalled = @ \/ killOk, !.evicted = TRUE ]]
    /\ pc' = [pc EXCEPT ![t] = "kill_del"]
    /\ UNCHANGED <<tunnels, self, tunnel, exc>>
    /\ ThreadFrame

\* kill_tunnel: del self.tunnels[key]
KillDel(t) ==
    /\ pc[t] = "kill_del"
    /\ IF ThreadKey(t) \in DOMAIN tunnels
       THEN /\ tunnels' = [k \in DOMAIN tunnels \ {ThreadKey(t)} |-> tunnels[k]]
            /\ Returns(t, None)
       ELSE /\ Returns(t, Raise("KeyError", "key"))
            /\ UNCHANGED tunnels
    /\ UNCHANGED procs
    /\ ThreadFrame

ThreadNext ==
    \E t \in Threads :
        \/ Call(t)
        \/ GetTest(t)
        \/ GetReturn(t)
        \/ GetPopen(t)
        \/ GetStore(t)
        \/ KillTest(t)
        \/ KillRead(t)
        \/ KillKill(t)
        \/ KillDel(t)

ThreadSpec == ThreadInit /\ [][ThreadNext]_vars

\* C17: under any interleaving of the get_tunnel and kill_tunnel calls of
\* independent threads, no process is spawned and then lost from the
\* registry: once the calls have returned, every process that was spawned
\* and that kill_tunnel did not take out is the one registered under its
\* key.
C17_NoProcessLost ==
    (\A t \in Threads : pc[t] = "idle") =>
        \A i \in 1..Len(procs) :
            ~procs[i].evicted =>
                /\ Key(procs[i].pair[1], procs[i].pair[2]) \in DOMAIN tunnels
                /\ tunnels[Key(procs[i].pair[1], procs[i].pair[2])] = i

-----------------------------------------------------------------------------
(* ProgrammableMock (src/programmablemock.py) *)

\* Here self is the ProgrammableMock: its stack of expectations and the
\* methods whose side effect expect has set. ret is the last call of a
\* mocked method (its arguments, the stack before it, what it returned),
\* exc the exception of the last call, and held is history: whether some
\* expectation was popped by a call that then failed its assertion.

\* Expectations waiting on the stack.
MaxStack == 2

MockMethods == { <<"a">>, <<"b">> }
MockArgs == { <<"1">>, <<"2">> }
MockKwargs == { << >>, <<"k">> }
MockResults == { <<"r">>, <<"s">> }
Ignore == <<"I", "G", "N", "O", "R", "E">>

MockInit ==
    /\ tunnels = << >>
    /\ procs = << >>
    /\ verbose = FALSE
    /\ ret = None
    /\ held = FALSE
    /\ pc = "ready"
    /\ self = [stack |-> << >>, expected |-> { }]
    /\ timeout = None
    /\ tunnel = 0
    /\ finished = FALSE
    /\ elapsed = 0
    /\ exc = None
    /\ polled = None
    /\ atWrite = << >>

MockFrame == UNCHANGED <<tunnels, procs, verbose, timeout, tunnel, finished, elapsed, polled, atWrite>>

\* _assert_call(*args, **kwargs), the side effect of a method given to
\* expect: the stack after the call, what it returns and what it raises.
\* The expectation is popped before it is compared; kwargs is not looked at.
_assert_call(stack, method, args, kwargs) ==
    IF Len(stack) = 0
    THEN [stack |-> stack, results |-> None, exc |-> Raise("Exception", "unexpected call")]
    ELSE LET expect == Head(stack) IN
         IF method # expect.method
         THEN [stack |-> Tail(stack), results |-> None,
               exc |-> Raise("AssertionError", "expected a call to")]
         ELSE IF expect.args # Ignore /\ args # expect.args
         THEN [stack |-> Tail(stack), results |-> None,
               exc |-> Raise("AssertionError", "expected a call with args")]
         ELSE [stack |-> Tail(stack), results |-> Some(expect.results), exc |-> None]

\* pmock.expect(method, args, results)
Expect ==
    \E method \in MockMethods, args \in MockArgs \cup { Ignore }, results \in MockResults :
        /\ Len(self.stack) < MaxStack
        /\ self' = [ stack |-> Append(self.stack,
                                 [method |-> method, args |-> args, results |-> results]),
                     expected |-> self.expected \cup { method } ]
        /\ pc' = "ready"
        /\ ret' = None
        /\ exc' = None
        /\ UNCHANGED held
        /\ MockFrame

\* A call of a method of the mock that was given to expect.
CallExpected ==
    \E method \in self.expected, args \in MockArgs, kwargs \in MockKwargs :
        LET r == _assert_call(self.stack, method, args, kwargs) IN
        /\ self' = [self EXCEPT !.stack = r.stack]
        /\ ret' = Some([ method |-> method, args |-> args, kwargs |-> kwargs,
                         before |-> self.stack, results |-> r.results ])
        /\ exc' = r.exc
        /\ held' = (held \/ (r.exc # None /\ Len(r.stack) < Len(self.stack)))
        /\ pc' = "ready"
        /\ MockFrame

\* A call of a method of the mocked class that was never given to expect:
\* its side effect is _default_call.
CallDefault ==
    \E method \in MockMethods \ self.expected :
        /\ exc' = Raise("Exception", "unhandled call")
        /\ ret' = None
        /\ pc' = "ready"
        /\ UNCHANGED <<self, held>>
        /\ MockFrame

\* pmock.assert_done()
AssertDone ==
    /\ pc' = "asserted"
    /\ exc' = IF Len(self.stack) = 0 THEN None
              ELSE Raise("AssertionError", "Expected the ProgrammableMock stack to be empty")
    /\ ret' = None
    /\ UNCHANGED <<self, held>>
    /\ MockFrame

MockNext == Expect \/ CallExpected \/ CallDefault \/ AssertDone

MockSpec == MockInit /\ [][MockNext]_vars

\* C18: a call of a method given to expect consumes the oldest expectation
\* left; it fails when none is left, when the method called is not the one
\* expected, or when the expected args are not 'IGNORE' and the arguments
\* of the call differ from them; otherwise it returns the expectation's
\* results.
C18_CallsInOrder ==
    ret # None =>
        LET call == ret[1] IN
        IF call.before = << >>
        THEN exc # None /\ self.stack = << >>
        ELSE LET expect == Head(call.before) IN
             /\ self.stack = Tail(call.before)
             /\ IF \/ call.method # expect.method
                   \/ /\ expect.args # Ignore
                      /\ (call.args # expect.args \/ call.kwargs # << >>)
                THEN exc # None
                ELSE exc = None /\ call.results = Some(expect.results)

\* C19: after any expect calls and calls of mocked methods, failed ones
\* among them, assert_done passes exactly when every expectation given to
\* expect was matched by a call of its method with its arguments: none is
\* left on the stack and none was consumed by a call that failed.
C19_AssertDone ==
    pc = "asserted" => ((exc = None) = (self.stack = << >> /\ ~held))

-----------------------------------------------------------------------------
(* Runs on a tunnel that earlier runs left text in *)

\* A command is sent to a tunnel with at most this many characters of
\* earlier answers still unread.
MaxStale == 2

\* run, where ret records what earlier exchanges left unread in the pipes
\* of the tunnel the command is written to (stale), and all that is to be
\* read from them once the answer to the command is added (all).
StaleRun ==
    /\ RunOn(MaxStale)
    /\ ret' = IF pc' # "loop" THEN None
              ELSE LET stale == IF tunnel' \in DOMAIN procs
                                THEN [out |-> procs[tunnel'].out \o procs[tunnel'].outRest,
                                      err |-> procs[tunnel'].err \o procs[tunnel'].errRest]
                                ELSE [out |-> << >>, err |-> << >>]
                   IN Some([ stale |-> stale,
                             all |-> [out |-> procs'[tunnel'].outRest,
                                      err |-> procs'[tunnel'].errRest] ])
    /\ UNCHANGED held

\* The clock stands still: every run ends within its budget.
StaleNext == StaleRun \/ Poll \/ PostLoop \/ Return \/ ArriveOut \/ ArriveErr

StaleSpec == Init /\ [][StaleNext]_vars

NoNewlines(text) == SelectSeq(text, LAMBDA c : c # "\n")

IsPrefix(a, b) == Len(a) <= Len(b) /\ a = SubSeq(b, 1, Len(a))

\* What the answer to the command of the run under way puts in the pipes.
OwnAnswer ==
    [ out |-> SubSeq(ret[1].all.out, Len(ret[1].stale.out) + 1, Len(ret[1].all.out)),
      err |-> SubSeq(ret[1].all.err, Len(ret[1].stale.err) + 1, Len(ret[1].all.err)) ]

\* C20: what a run captures is the answer to its own command. Whatever
\* earlier exchanges left unread in the tunnel's pipes, the stdout and the
\* stderr of a run hold, line breaks aside, only the start of what the
\* remote side wrote in answer to the run's command; so no earlier line
\* ends the exchange either.
C20_OnlyOwnAnswer ==
    (pc \in { "loop", "post", "done" } /\ ret # None) =>
        /\ IsPrefix(NoNewlines(self.stdout), NoNewlines(OwnAnswer.out))
        /\ IsPrefix(NoNewlines(self.stderr), NoNewlines(OwnAnswer.err))

=============================================================================
